---- MODULE Spec2Model ----
(***************************************************************************)
(* Financial news sentiment backend: the multi-source aggregation pipeline *)
(* (backend/app/news_scraper.py, news_api.py, excel_news.py) and the       *)
(* rule-based sentiment scorer with its metrics log (sentiment.py), and   *)
(* the per-ticker summary of the summary endpoint (api.py).                *)
(*                                                                         *)
(* Text is modelled as a sequence of one-character strings so that         *)
(* str.strip(), str.lower(), slicing and substring tests are computed.     *)
(* Optional arguments are <<>> (None) or <<v>>.                            *)
(***************************************************************************)
EXTENDS Integers, Sequences, FiniteSets, TLC

VARIABLES
    pc,               \* position inside get_financial_news / the scorer driver
    ticker,           \* argument ticker
    days,             \* local days after the coercion of lines 33-35
    max_results,      \* argument max_results, <<>> for None
    all_articles,     \* get_news_from_api: articles collected by the paging loop
    page,             \* get_news_from_api: next page number
    data,             \* get_news_from_api: totalResults of the last decoded body, <<>> if none
    requests_made,    \* number of page requests sent to the live source
    news_items,       \* get_financial_news: the merged list
    excel_items,      \* rows returned by get_news_from_excel
    demo_items,       \* items returned by get_demo_news
    idx,              \* position of the scoring loop in news_items
    processed_items,  \* get_financial_news: scored records
    text,             \* argument of the last analyze call
    sentiment_result, \* last value returned by analyze, <<>> if none
    outcome,          \* "idle", "running", "returned", or "raised" if an exception left the call
    raised_at,        \* step of the try block that raised, "" if none
    result,           \* value returned by get_financial_news
    calls,            \* adapters invoked so far, each with the days it was given
    model,            \* sentiment._model: <<>> (None) or <<SentimentModel>>
    now,              \* wall clock, seconds
    metrics_file,     \* <MODEL_REGISTRY>/<version>_metrics.json
    summary,          \* get_sentiment_summary_endpoint: summary[ticker], <<>> if none
    response,         \* is_api_key_valid: outcome of the probe request, <<>> if none
    threads           \* analyze calls running at once: position and locals of each

vars == << pc, ticker, days, max_results, all_articles, page, data, requests_made,
           news_items, excel_items, demo_items, idx, processed_items, text,
           sentiment_result, outcome, raised_at, result, calls, model, now,
           metrics_file, summary, response, threads >>

pipeline_vars == << response, ticker, days, max_results, all_articles, page, data, requests_made,
                    news_items, excel_items, demo_items, idx, processed_items,
                    outcome, raised_at, result, calls >>

scorer_vars == << text, sentiment_result, model, now, metrics_file >>

----------------------------------------------------------------------------
(* Bounds of the explored inputs. *)

MaxResultsBound == 2     \* max_results ranges over 1..MaxResultsBound
MaxFill == 3             \* distinct filler headlines a source may lead with
MaxClock == 122          \* the clock stops advancing here

----------------------------------------------------------------------------
(* Python built-ins on sequences and strings. *)

None == <<>>

Min(a, b) == IF a < b THEN a ELSE b
Max(a, b) == IF a > b THEN a ELSE b

\* s[:n] for n >= 0
Take(s, n) == SubSeq(s, 1, Min(n, Len(s)))

(* get_demo_news: the four common headlines; age_hours is the timedelta
   subtracted from datetime.now() when the published_date is built. *)
common_news ==
    << [title |-> <<"M", "a", "r", "k", "e", "t", "s", " ", "r", "e", "a", "c", "h", " ", "r", "e", "c", "o", "r", "d", " ", "h", "i", "g", "h", "s", " ", "a", "s", " ", "t", "e", "c", "h", " ", "s", "t", "o", "c", "k", "s", " ", "s", "u", "r", "g", "e">>,
        age_hours |-> 24],
       [title |-> <<"F", "e", "d", "e", "r", "a", "l", " ", "R", "e", "s", "e", "r", "v", "e", " ", "a", "n", "n", "o", "u", "n", "c", "e", "s", " ", "p", "l", "a", "n", "s", " ", "t", "o", " ", "m", "a", "i", "n", "t", "a", "i", "n", " ", "i", "n", "t", "e", "r", "e", "s", "t", " ", "r", "a", "t", "e", "s">>,
        age_hours |-> 48],
       [title |-> <<"G", "l", "o", "b", "a", "l", " ", "r", "e", "c", "e", "s", "s", "i", "o", "n", " ", "f", "e", "a", "r", "s", " ", "g", "r", "o", "w", " ", "a", "s", " ", "m", "a", "n", "u", "f", "a", "c", "t", "u", "r", "i", "n", "g", " ", "s", "l", "o", "w", "s">>,
        age_hours |-> 72],
       [title |-> <<"I", "n", "f", "l", "a", "t", "i", "o", "n", " ", "d", "a", "t", "a", " ", "s", "h", "o", "w", "s", " ", "s", "i", "g", "n", "s", " ", "o", "f", " ", "m", "o", "d", "e", "r", "a", "t", "i", "n", "g", ",", " ", "a", "n", "a", "l", "y", "s", "t", "s", " ", "s", "a", "y">>,
        age_hours |-> 96] >>

(* get_demo_news: ticker_news, the f-string headlines of the five known tickers. *)
ticker_news_AAPL(t) ==
    << [title |-> <<>> \o t \o <<" ", "r", "e", "p", "o", "r", "t", "s", " ", "r", "e", "c", "o", "r", "d", " ", "q", "u", "a", "r", "t", "e", "r", "l", "y", " ", "e", "a", "r", "n", "i", "n", "g", "s", ",", " ", "e", "x", "c", "e", "e", "d", "i", "n", "g", " ", "e", "x", "p", "e", "c", "t", "a", "t", "i", "o", "n", "s">>,
        age_hours |-> 28],
       [title |-> <<"N", "e", "w", " ">> \o t \o <<" ", "p", "r", "o", "d", "u", "c", "t", " ", "l", "i", "n", "e", " ", "l", "a", "u", "n", "c", "h", "e", "s", " ", "t", "o", " ", "s", "t", "r", "o", "n", "g", " ", "d", "e", "m", "a", "n", "d">>,
        age_hours |-> 54],
       [title |-> <<"A", "n", "a", "l", "y", "s", "t", " ", "d", "o", "w", "n", "g", "r", "a", "d", "e", "s", " ">> \o t \o <<" ", "c", "i", "t", "i", "n", "g", " ", "s", "u", "p", "p", "l", "y", " ", "c", "h", "a", "i", "n", " ", "c", "o", "n", "c", "e", "r", "n", "s">>,
        age_hours |-> 80] >>

ticker_news_MSFT(t) ==
    << [title |-> <<>> \o t \o <<" ", "c", "l", "o", "u", "d", " ", "s", "e", "r", "v", "i", "c", "e", "s", " ", "g", "r", "o", "w", " ", "4", "0", "%", " ", "y", "e", "a", "r", "-", "o", "v", "e", "r", "-", "y", "e", "a", "r">>,
        age_hours |-> 27],
       [title |-> <<>> \o t \o <<" ", "a", "n", "n", "o", "u", "n", "c", "e", "s", " ", "n", "e", "w", " ", "A", "I", " ", "p", "a", "r", "t", "n", "e", "r", "s", "h", "i", "p", "s", " ", "w", "i", "t", "h", " ", "i", "n", "d", "u", "s", "t", "r", "y", " ", "l", "e", "a", "d", "e", "r", "s">>,
        age_hours |-> 53],
       [title |-> <<"S", "e", "c", "u", "r", "i", "t", "y", " ", "v", "u", "l", "n", "e", "r", "a", "b", "i", "l", "i", "t", "i", "e", "s", " ", "d", "i", "s", "c", "o", "v", "e", "r", "e", "d", " ", "i", "n", " ">> \o t \o <<" ", "p", "r", "o", "d", "u", "c", "t", "s">>,
        age_hours |-> 79] >>

ticker_news_GOOGL(t) ==
    << [title |-> <<>> \o t \o <<" ", "a", "d", " ", "r", "e", "v", "e", "n", "u", "e", " ", "e", "x", "c", "e", "e", "d", "s", " ", "p", "r", "o", "j", "e", "c", "t", "i", "o", "n", "s", " ", "i", "n", " ", "q", "u", "a", "r", "t", "e", "r", "l", "y", " ", "r", "e", "p", "o", "r", "t">>,
        age_hours |-> 26],
       [title |-> <<"R", "e", "g", "u", "l", "a", "t", "o", "r", "y", " ", "c", "h", "a", "l", "l", "e", "n", "g", "e", "s", " ", "m", "o", "u", "n", "t", " ", "f", "o", "r", " ">> \o t \o <<" ", "i", "n", " ", "E", "u", "r", "o", "p", "e", "a", "n", " ", "m", "a", "r", "k", "e", "t", "s">>,
        age_hours |-> 52],
       [title |-> <<>> \o t \o <<" ", "u", "n", "v", "e", "i", "l", "s", " ", "n", "e", "w", " ", "s", "e", "a", "r", "c", "h", " ", "a", "l", "g", "o", "r", "i", "t", "h", "m", " ", "w", "i", "t", "h", " ", "e", "n", "h", "a", "n", "c", "e", "d", " ", "A", "I", " ", "c", "a", "p", "a", "b", "i", "l", "i", "t", "i", "e", "s">>,
        age_hours |-> 78] >>

ticker_news_AMZN(t) ==
    << [title |-> <<>> \o t \o <<" ", "e", "-", "c", "o", "m", "m", "e", "r", "c", "e", " ", "s", "a", "l", "e", "s", " ", "s", "u", "r", "g", "e", " ", "d", "u", "r", "i", "n", "g", " ", "h", "o", "l", "i", "d", "a", "y", " ", "s", "e", "a", "s", "o", "n">>,
        age_hours |-> 25],
       [title |-> <<>> \o t \o <<" ", "e", "x", "p", "a", "n", "d", "s", " ", "l", "o", "g", "i", "s", "t", "i", "c", "s", " ", "n", "e", "t", "w", "o", "r", "k", " ", "w", "i", "t", "h", " ", "n", "e", "w", " ", "f", "u", "l", "f", "i", "l", "l", "m", "e", "n", "t", " ", "c", "e", "n", "t", "e", "r", "s">>,
        age_hours |-> 51],
       [title |-> <<"L", "a", "b", "o", "r", " ", "u", "n", "i", "o", "n", " ", "p", "u", "s", "h", "e", "s", " ", "f", "o", "r", " ", "w", "o", "r", "k", "e", "r", " ", "r", "i", "g", "h", "t", "s", " ", "a", "t", " ">> \o t \o <<" ", "w", "a", "r", "e", "h", "o", "u", "s", "e", "s">>,
        age_hours |-> 77] >>

ticker_news_TSLA(t) ==
    << [title |-> <<>> \o t \o <<" ", "p", "r", "o", "d", "u", "c", "t", "i", "o", "n", " ", "n", "u", "m", "b", "e", "r", "s", " ", "h", "i", "t", " ", "n", "e", "w", " ", "r", "e", "c", "o", "r", "d", " ", "i", "n", " ", "l", "a", "t", "e", "s", "t", " ", "q", "u", "a", "r", "t", "e", "r">>,
        age_hours |-> 25],
       [title |-> <<>> \o t \o <<" ", "C", "E", "O", " ", "a", "n", "n", "o", "u", "n", "c", "e", "s", " ", "n", "e", "w", " ", "b", "a", "t", "t", "e", "r", "y", " ", "t", "e", "c", "h", "n", "o", "l", "o", "g", "y", " ", "b", "r", "e", "a", "k", "t", "h", "r", "o", "u", "g", "h">>,
        age_hours |-> 50],
       [title |-> <<"A", "n", "a", "l", "y", "s", "t", "s", " ", "d", "i", "v", "i", "d", "e", "d", " ", "o", "n", " ">> \o t \o <<" ", "s", "t", "o", "c", "k", " ", "v", "a", "l", "u", "a", "t", "i", "o", "n", " ", "a", "f", "t", "e", "r", " ", "r", "e", "c", "e", "n", "t", " ", "v", "o", "l", "a", "t", "i", "l", "i", "t", "y">>,
        age_hours |-> 75] >>

default_ticker_news(t) ==
    << [title |-> <<>> \o t \o <<" ", "s", "h", "a", "r", "e", "s", " ", "m", "o", "v", "e", " ", "o", "n", " ", "m", "a", "r", "k", "e", "t", " ", "t", "r", "e", "n", "d", "s">>,
        age_hours |-> 26],
       [title |-> <<"A", "n", "a", "l", "y", "s", "t", "s", " ", "i", "s", "s", "u", "e", " ", "n", "e", "w", " ", "p", "r", "i", "c", "e", " ", "t", "a", "r", "g", "e", "t", "s", " ", "f", "o", "r", " ">> \o t \o <<>>,
        age_hours |-> 53],
       [title |-> <<>> \o t \o <<" ", "a", "n", "n", "o", "u", "n", "c", "e", "s", " ", "q", "u", "a", "r", "t", "e", "r", "l", "y", " ", "d", "i", "v", "i", "d", "e", "n", "d">>,
        age_hours |-> 80] >>

AAPL == <<"A", "A", "P", "L">>
MSFT == <<"M", "S", "F", "T">>
GOOGL == <<"G", "O", "O", "G", "L">>
AMZN == <<"A", "M", "Z", "N">>
TSLA == <<"T", "S", "L", "A">>

default_positive_keywords ==
    << <<"s", "u", "r", "g", "e">>,
       <<"r", "e", "c", "o", "r", "d">>,
       <<"e", "x", "c", "e", "e", "d", "i", "n", "g">>,
       <<"s", "t", "r", "o", "n", "g">>,
       <<"g", "r", "o", "w">>,
       <<"g", "r", "o", "w", "t", "h">>,
       <<"b", "r", "e", "a", "k", "t", "h", "r", "o", "u", "g", "h">>,
       <<"p", "o", "s", "i", "t", "i", "v", "e">>,
       <<"g", "a", "i", "n">>,
       <<"g", "a", "i", "n", "s">>,
       <<"p", "r", "o", "f", "i", "t">>,
       <<"p", "r", "o", "f", "i", "t", "a", "b", "l", "e">>,
       <<"s", "u", "c", "c", "e", "s", "s">>,
       <<"s", "u", "c", "c", "e", "s", "s", "f", "u", "l">>,
       <<"i", "n", "n", "o", "v", "a", "t", "i", "o", "n">>,
       <<"i", "n", "n", "o", "v", "a", "t", "i", "v", "e">>,
       <<"o", "p", "p", "o", "r", "t", "u", "n", "i", "t", "y">>,
       <<"o", "p", "p", "o", "r", "t", "u", "n", "i", "t", "i", "e", "s">>,
       <<"u", "p", "b", "e", "a", "t">>,
       <<"o", "p", "t", "i", "m", "i", "s", "t", "i", "c">> >>

default_negative_keywords ==
    << <<"d", "o", "w", "n", "g", "r", "a", "d", "e">>,
       <<"c", "o", "n", "c", "e", "r", "n", "s">>,
       <<"v", "u", "l", "n", "e", "r", "a", "b", "i", "l", "i", "t", "i", "e", "s">>,
       <<"i", "s", "s", "u", "e", "s">>,
       <<"c", "h", "a", "l", "l", "e", "n", "g", "e", "s">>,
       <<"m", "o", "u", "n", "t">>,
       <<"l", "a", "b", "o", "r">>,
       <<"d", "i", "v", "i", "d", "e", "d">>,
       <<"v", "o", "l", "a", "t", "i", "l", "i", "t", "y">>,
       <<"f", "e", "a", "r", "s">>,
       <<"r", "e", "c", "e", "s", "s", "i", "o", "n">>,
       <<"l", "o", "s", "s">>,
       <<"l", "o", "s", "s", "e", "s">>,
       <<"d", "e", "b", "t">>,
       <<"d", "e", "c", "l", "i", "n", "e">>,
       <<"f", "e", "l", "l">>,
       <<"f", "a", "l", "l">>,
       <<"d", "r", "o", "p">>,
       <<"b", "e", "a", "r", "i", "s", "h">>,
       <<"p", "e", "s", "s", "i", "m", "i", "s", "t", "i", "c">>,
       <<"b", "a", "n", "k", "r", "u", "p", "t", "c", "y">>,
       <<"l", "a", "w", "s", "u", "i", "t">>,
       <<"i", "n", "v", "e", "s", "t", "i", "g", "a", "t", "i", "o", "n">>,
       <<"r", "e", "g", "u", "l", "a", "t", "o", "r", "y">>,
       <<"s", "c", "r", "u", "t", "i", "n", "y">>,
       <<"i", "n", "f", "l", "a", "t", "i", "o", "n">>,
       <<"s", "h", "o", "r", "t", "a", "g", "e">> >>

ascii_uppercase ==
    <<"A", "B", "C", "D", "E", "F", "G", "H", "I", "J", "K", "L", "M", "N", "O", "P", "Q", "R", "S", "T", "U", "V", "W", "X", "Y", "Z">>
ascii_lowercase ==
    <<"a", "b", "c", "d", "e", "f", "g", "h", "i", "j", "k", "l", "m", "n", "o", "p", "q", "r", "s", "t", "u", "v", "w", "x", "y", "z">>

whitespace == {" ", "\t"}

\* the upper-case letters and what str.lower() makes of them
to_lower ==
    [c \in {ascii_uppercase[i] : i \in 1..Len(ascii_uppercase)} |->
        ascii_lowercase[CHOOSE i \in 1..Len(ascii_uppercase) : ascii_uppercase[i] = c]]

lower_char(c) == IF c \in DOMAIN to_lower THEN to_lower[c] ELSE c

\* str.lower()
lower(s) == [i \in 1..Len(s) |-> lower_char(s[i])]

RECURSIVE lstrip(_)
lstrip(s) ==
    IF s # <<>> /\ Head(s) \in whitespace THEN lstrip(Tail(s)) ELSE s

RECURSIVE rstrip(_)
rstrip(s) ==
    IF s # <<>> /\ s[Len(s)] \in whitespace
    THEN rstrip(SubSeq(s, 1, Len(s) - 1))
    ELSE s

\* str.strip()
strip(s) == rstrip(lstrip(s))

\* title.strip().lower(), the key of the duplicate test
normalized_title(title) == lower(strip(title))

----------------------------------------------------------------------------
(* Inputs: what the caller passes and what the three sources answer. *)

IBM == <<"I", "B", "M">>

\* tickers of the explored calls: one with its own demo headlines, one without
Tickers == {AAPL, IBM}

DaysArgs == {None, <<-1>>, <<0>>, <<2>>, <<31>>}

MaxResultsArgs == {None} \cup {<<n>> : n \in 1..MaxResultsBound}

digits == <<"1", "2", "3", "4", "5", "6", "7", "8", "9">>

\* k pairwise different headlines "h1", "h2", ...
FillTitles(k) == [i \in 1..k |-> <<"h", digits[i]>>]

\* the same headlines as another source spells them: "H1 ", "H2 ", ...
FillTitlesVariant(k) == [i \in 1..k |-> <<"H", digits[i], " ">>]

\* an article of the live source: title ('' when missing) and whether
\* publishedAt parses with "%Y-%m-%dT%H:%M:%SZ"
Article(t, ok) == [title |-> t, date_ok |-> ok]

ApiTails ==
    { <<>>,
      << Article(<<"a">>, FALSE), Article(<<"A", " ">>, TRUE) >>,
      << Article(<<>>, TRUE), Article(<<" ">>, TRUE), Article(<<"a">>, TRUE) >>,
      << Article(<<"b">>, TRUE), Article(<<" ", "B">>, TRUE) >> }

ApiArticleLists ==
    { [i \in 1..k |-> Article(FillTitles(k)[i], TRUE)] \o tail :
        k \in 0..MaxFill, tail \in ApiTails }

\* a response of requests.get(url, params): an exception, or a status with
\* the decoded body
ApiResponses ==
    { [exc |-> TRUE, status |-> 0, articles |-> <<>>, totalResults |-> 0] }
    \cup { [exc |-> FALSE, status |-> s, articles |-> <<>>, totalResults |-> 0] :
             s \in {429, 500} }
    \cup { [exc |-> FALSE, status |-> 200, articles |-> a, totalResults |-> n] :
             a \in ApiArticleLists, n \in {0, 1000} }

\* a request the source never answers
NoAnswer == [exc |-> FALSE, status |-> 0, articles |-> <<>>, totalResults |-> 0]

\* a row of the Excel sheet as DataFrame.to_dict('records') yields it; an
\* empty title cell is the float NaN, which is_str = FALSE stands for
Row(t, s) == [title |-> t, is_str |-> s]

ExcelTails ==
    { <<>>,
      << Row(<<"A", " ">>, TRUE), Row(<<"a">>, TRUE), Row(<<"c">>, TRUE) >>,
      << Row(<<"c">>, TRUE), Row(<<>>, FALSE) >>,
      << Row(<<" ">>, TRUE), Row(<<>>, TRUE),
         Row(<<" ", "m">> \o Tail(common_news[1].title), TRUE),
         Row(common_news[1].title \o <<" ">>, TRUE) >> }

ExcelRowLists ==
    { [i \in 1..k |-> Row(FillTitlesVariant(k)[i], TRUE)] \o tail :
        k \in 0..MaxFill, tail \in ExcelTails }

\* outcomes of the probe request: an exception class or a status code
ProbeOutcomes ==
    { [exc |-> e, status |-> 0] : e \in {"Timeout", "ConnectionError", "Exception"} }
    \cup { [exc |-> "", status |-> s] : s \in {200, 401, 429, 500} }

----------------------------------------------------------------------------
(* news_api.py *)

\* the timeout argument of the two requests.get calls: none at line 96,
\* timeout=5 at line 199
page_request_timeout == None
probe_request_timeout == << 5 >>

\* a probe that takes every answered request for a working key
is_api_key_valid_any_status(o) ==
    IF o.exc # "" THEN FALSE ELSE TRUE

\* is_api_key_valid: True only for a 200 answer; every exception is caught
is_api_key_valid(o) ==
    IF o.exc # "" THEN FALSE
    ELSE IF o.status = 200 THEN TRUE
    ELSE FALSE

\* a record of the merged list; source and pos stand for the publisher,
\* link and published_date that tell two records apart
Item(t, s, src, p) == [title |-> t, is_str |-> s, source |-> src, pos |-> p]

\* get_news_from_api, lines 126-160: one turn of the loop, on article p,
\* with st = [seen_titles, items]
format_article(articles, p, st) ==
    LET article == articles[p]
        title == article.title
    IN IF title = <<>>
       THEN st
       ELSE IF normalized_title(title) \in st.seen_titles
       THEN st
       ELSE IF article.date_ok
       THEN [seen_titles |-> st.seen_titles \cup {normalized_title(title)},
             items |-> Append(st.items, Item(title, TRUE, "NewsAPI", p))]
       ELSE [seen_titles |-> st.seen_titles \cup {normalized_title(title)},
             items |-> st.items]

\* the turns lo..hi of the loop in order, the range halved at each level
RECURSIVE format_range(_, _, _, _)
format_range(articles, lo, hi, st) ==
    IF lo > hi THEN st
    ELSE IF lo = hi THEN format_article(articles, lo, st)
    ELSE LET mid == (lo + hi) \div 2
         IN CHOOSE last \in { format_range(articles, mid + 1, hi, first) :
                                first \in { format_range(articles, lo, mid, st) } } : TRUE

\* get_news_from_api, lines 122-160: the loop over all_articles[:max_results]
\* from article p on
format_articles(articles, p, seen_titles, items) ==
    format_range(articles, p, Len(articles),
                 [seen_titles |-> seen_titles, items |-> items]).items

\* a page size that ignores max_results
page_size_fixed(mr) == 100

\* min(100, max_results), line 80
page_size(mr) == Min(100, mr)

----------------------------------------------------------------------------
(* news_scraper.py *)

\* a coercion that forgets the floor of line 35
coerce_days_unclamped(d) == IF d = None THEN 7 ELSE d[1]

\* lines 33-35
coerce_days(d) ==
    LET d1 == IF d = None THEN 7 ELSE d[1]
    IN Max(1, d1)

\* the threshold with the exact half rounded up instead of down
excel_threshold_half_up(mr) == Min(30, (mr + 1) \div 2)

\* line 57: min(30, max_results // 2)
excel_threshold(mr) == Min(30, mr \div 2)

\* line 58
needs_excel(d, n, mr) == d > 30 \/ n < excel_threshold(mr)

\* a last resort taken only when nothing at all was found
needs_demo_only_if_empty(items) == items = <<>>

\* line 75
needs_demo(items) == items = <<>> \/ Len(items) < 5

\* the titles already present, compared as written
existing_titles_as_written(items) == { items[i].title : i \in 1..Len(items) }

\* lines 67 and 82
existing_titles_of(items) == { normalized_title(items[i].title) : i \in 1..Len(items) }

\* lines 68-72 and 83-87: the append loop; .strip() on a title that is not a
\* str raises AttributeError
RECURSIVE merge_loop(_, _, _, _)
merge_loop(items, existing_titles, offered, p) ==
    IF p > Len(offered) THEN [raised |-> FALSE, items |-> items]
    ELSE LET item == offered[p]
         IN IF ~item.is_str THEN [raised |-> TRUE, items |-> items]
            ELSE LET title == normalized_title(item.title)
                 IN IF title # <<>> /\ title \notin existing_titles
                    THEN merge_loop(Append(items, item),
                                    existing_titles \cup {title}, offered, p + 1)
                    ELSE merge_loop(items, existing_titles, offered, p + 1)

\* a merge that lets the later source win: its items come first
merge_into_later_first(items, offered) ==
    IF offered = <<>> THEN [raised |-> FALSE, items |-> items]
    ELSE merge_loop(<<>>, {}, offered \o items, 1)

merge_into(items, offered) ==
    IF offered = <<>> THEN [raised |-> FALSE, items |-> items]
    ELSE merge_loop(items, existing_titles_of(items), offered, 1)

\* a truncation that is off by one
truncate_one_more(items, mr) == IF Len(items) > mr THEN Take(items, mr + 1) ELSE items

\* a truncation that keeps the tail
truncate_keeps_last(items, mr) ==
    IF Len(items) > mr THEN SubSeq(items, Len(items) - mr + 1, Len(items)) ELSE items

\* lines 90-92
truncate(items, mr) == IF Len(items) > mr THEN Take(items, mr) ELSE items

\* get_demo_news, lines 305: ticker_news.get(ticker, default_ticker_news)
specific_news(t) ==
    IF t = AAPL THEN ticker_news_AAPL(t)
    ELSE IF t = MSFT THEN ticker_news_MSFT(t)
    ELSE IF t = GOOGL THEN ticker_news_GOOGL(t)
    ELSE IF t = AMZN THEN ticker_news_AMZN(t)
    ELSE IF t = TSLA THEN ticker_news_TSLA(t)
    ELSE default_ticker_news(t)

\* get_demo_news, lines 308-320.  cutoff_date is taken from an earlier
\* datetime.now() than the published_date, which is cut to whole seconds: a
\* headline exactly `days` old passes or not depending on sub-second timing
\* (on_cutoff_kept).
RECURSIVE filter_by_date(_, _, _, _, _)
filter_by_date(all, p, d, on_cutoff_kept, filtered_news) ==
    IF p > Len(all) THEN filtered_news
    ELSE LET item == all[p]
             older == \/ item.age_hours > 24 * d
                      \/ item.age_hours = 24 * d /\ ~on_cutoff_kept
         IN IF older
            THEN filter_by_date(all, p + 1, d, on_cutoff_kept, filtered_news)
            ELSE filter_by_date(all, p + 1, d, on_cutoff_kept,
                                Append(filtered_news, Item(item.title, TRUE, "Demo", p)))

get_demo_news(t, d, on_cutoff_kept) ==
    filter_by_date(common_news \o specific_news(t), 1, d, on_cutoff_kept, <<>>)

\* an except clause that lets the exception through
except_reraise == [outcome |-> "raised", result |-> <<>>]

\* lines 126-129: the except clause of get_financial_news
except_Exception == [outcome |-> "returned", result |-> <<>>]

----------------------------------------------------------------------------
(* sentiment.py *)


\* random.random() in thousandths: 0 <= r < 1
RandomDraws == {0, 999}

\* the process environment read by SentimentModel.__init__: MODEL_MAX_LENGTH
\* and what MODEL_PATH points to ("default": no file, the built-in keywords;
\* "file": a well-formed keyword file; "malformed": a JSON file whose
\* keyword entries cannot be iterated)
Environ(ml, cfg) == [max_length |-> ml, config |-> cfg]

file_config ==
    [positive_keywords |-> << <<"U", "p">>, <<"a">> >>,
     negative_keywords |-> << <<"b">> >>,
     iterable |-> TRUE]

\* _load_config
load_config(env) ==
    IF env.config = "file" THEN file_config
    ELSE IF env.config = "malformed"
    THEN [positive_keywords |-> <<>>, negative_keywords |-> <<>>, iterable |-> FALSE]
    ELSE [positive_keywords |-> default_positive_keywords,
          negative_keywords |-> default_negative_keywords,
          iterable |-> TRUE]

\* SentimentModel.__init__ at time t
SentimentModel(env, t) ==
    [max_length |-> env.max_length,
     config |-> load_config(env),
     request_count |-> 0,
     error_count |-> 0,
     latency_ms_sum |-> 0,
     last_metrics_save |-> t]

\* a get_model that builds a new instance on every call
get_model_rebuilds(m, env, t) == << SentimentModel(env, t) >>

\* get_model(), lines 219-228: the module-level _model is built from the
\* environment on the first call and returned as it is afterwards
get_model(m, env, t) ==
    IF m = None THEN << SentimentModel(env, t) >> ELSE m

\* word in s
contains(s, word) ==
    \E i \in 1..(Len(s) - Len(word) + 1) : SubSeq(s, i, i + Len(word) - 1) = word

\* sum(1 for word in keywords if word.lower() in text.lower())
keyword_count(keywords, s) ==
    LET lowered == lower(s)
    IN Cardinality({ i \in 1..Len(keywords) : contains(lowered, lower(keywords[i])) })

\* _analyze_rule_based, lines 141-147: the two counts; iterating a keyword
\* entry that is not a list raises TypeError
keyword_counts(config, s) ==
    IF ~config.iterable
    THEN [raised |-> TRUE, positive_count |-> 0, negative_count |-> 0]
    ELSE [raised |-> FALSE,
          positive_count |-> keyword_count(config.positive_keywords, s),
          negative_count |-> keyword_count(config.negative_keywords, s)]

\* the scoring rule without the cap of the base score at 0.95
rule_based_result_uncapped(c, r) ==
    IF c.positive_count > c.negative_count
    THEN [sentiment |-> "positive",
          score |-> 70000 + 10000 * (c.positive_count - c.negative_count) + 5 * r,
          positive_count |-> c.positive_count, negative_count |-> c.negative_count]
    ELSE IF c.negative_count > c.positive_count
    THEN [sentiment |-> "negative",
          score |-> 70000 + 10000 * (c.negative_count - c.positive_count) + 5 * r,
          positive_count |-> c.positive_count, negative_count |-> c.negative_count]
    ELSE [sentiment |-> "neutral",
          score |-> 50000 + 10 * r,
          positive_count |-> c.positive_count, negative_count |-> c.negative_count]

\* the scoring rule with the first comparison written >=
rule_based_result_ties_positive(c, r) ==
    IF c.positive_count >= c.negative_count
    THEN [sentiment |-> "positive",
          score |-> Min(70000 + 10000 * (c.positive_count - c.negative_count), 95000)
                    + 5 * r,
          positive_count |-> c.positive_count, negative_count |-> c.negative_count]
    ELSE IF c.negative_count > c.positive_count
    THEN [sentiment |-> "negative",
          score |-> Min(70000 + 10000 * (c.negative_count - c.positive_count), 95000)
                    + 5 * r,
          positive_count |-> c.positive_count, negative_count |-> c.negative_count]
    ELSE [sentiment |-> "neutral",
          score |-> 50000 + 10 * r,
          positive_count |-> c.positive_count, negative_count |-> c.negative_count]

\* the scoring rule with the jitter of the neutral branch (0.1) used on
\* every branch
rule_based_result_wide_jitter(c, r) ==
    IF c.positive_count > c.negative_count
    THEN [sentiment |-> "positive",
          score |-> Min(70000 + 10000 * (c.positive_count - c.negative_count), 95000)
                    + 10 * r,
          positive_count |-> c.positive_count, negative_count |-> c.negative_count]
    ELSE IF c.negative_count > c.positive_count
    THEN [sentiment |-> "negative",
          score |-> Min(70000 + 10000 * (c.negative_count - c.positive_count), 95000)
                    + 10 * r,
          positive_count |-> c.positive_count, negative_count |-> c.negative_count]
    ELSE [sentiment |-> "neutral",
          score |-> 50000 + 10 * r,
          positive_count |-> c.positive_count, negative_count |-> c.negative_count]

\* _analyze_rule_based, lines 149-171, with random.random() = r / 1000
rule_based_result(c, r) ==
    IF c.positive_count > c.negative_count
    THEN [sentiment |-> "positive",
          score |-> Min(70000 + 10000 * (c.positive_count - c.negative_count), 95000)
                    + 5 * r,
          positive_count |-> c.positive_count, negative_count |-> c.negative_count]
    ELSE IF c.negative_count > c.positive_count
    THEN [sentiment |-> "negative",
          score |-> Min(70000 + 10000 * (c.negative_count - c.positive_count), 95000)
                    + 5 * r,
          positive_count |-> c.positive_count, negative_count |-> c.negative_count]
    ELSE [sentiment |-> "neutral",
          score |-> 50000 + 10 * r,
          positive_count |-> c.positive_count, negative_count |-> c.negative_count]

\* the MetricsSnapshot of _save_metrics, lines 178-188; the two quotients are
\* kept as numerator and denominator
metrics_of(m, t) ==
    [timestamp |-> t,
     request_count |-> m.request_count,
     error_count |-> m.error_count,
     avg_latency_ms |-> << m.latency_ms_sum, Max(1, m.request_count) >>,
     error_rate |-> << m.error_count, Max(1, m.request_count) >>]

\* the metrics file: absent, a JSON list, a single JSON object, or bytes
\* that json.load rejects
AbsentFile == [kind |-> "absent", entries |-> <<>>]

\* outcomes of the write of lines 207-208: it succeeds, open() fails, or
\* json.dump fails after open() has truncated the file
WriteOutcomes == {"ok", "open_error", "dump_error"}

\* _save_metrics, lines 190-214, at time t: the new file and
\* last_metrics_save; every exception is caught and logged
save_metrics(m, file, t, write) ==
    IF file.kind = "corrupt"
    THEN [file |-> file, last_metrics_save |-> m.last_metrics_save, raised |-> FALSE]
    ELSE LET metrics_data == Append(file.entries, metrics_of(m, t))
         IN IF write = "ok"
            THEN [file |-> [kind |-> "list", entries |-> metrics_data],
                  last_metrics_save |-> t, raised |-> FALSE]
            ELSE IF write = "open_error"
            THEN [file |-> file, last_metrics_save |-> m.last_metrics_save,
                  raised |-> FALSE]
            ELSE [file |-> [kind |-> "corrupt", entries |-> <<>>],
                  last_metrics_save |-> m.last_metrics_save, raised |-> FALSE]

\* an except clause of analyze that counts the error and raises again
analyze_except_reraise(m) ==
    [raised |-> TRUE,
     model |-> [m EXCEPT !.error_count = @ + 1],
     value |-> [sentiment |-> "neutral", score |-> 50000, error |-> TRUE]]

\* an except clause of analyze that forgets to count the error
analyze_except_uncounted(m) ==
    [raised |-> FALSE,
     model |-> m,
     value |-> [sentiment |-> "neutral", score |-> 50000, error |-> TRUE]]

\* an except clause of analyze that counts the error twice
analyze_except_counted_twice(m) ==
    [raised |-> FALSE,
     model |-> [m EXCEPT !.error_count = @ + 2],
     value |-> [sentiment |-> "neutral", score |-> 50000, error |-> TRUE]]

\* lines 117-127: the except clause of analyze
analyze_except(m) ==
    [raised |-> FALSE,
     model |-> [m EXCEPT !.error_count = @ + 1],
     value |-> [sentiment |-> "neutral", score |-> 50000, error |-> TRUE]]

\* clock values a call may observe next
LaterTimes(t) == {t} \cup { u \in {t + 60, t + 61} : u <= MaxClock }

\* a request counted twice
count_request_twice(m) == [m EXCEPT !.request_count = @ + 2]

\* line 90
count_request(m) == [m EXCEPT !.request_count = @ + 1]

\* the text handed on uncut
truncated_never(s, max_length) == s

\* lines 92-94
truncated(s, max_length) ==
    IF Len(s) > max_length THEN Take(s, max_length) ELSE s

\* lines 100-115: the rest of the try block once _analyze_rule_based has
\* returned rb; line 101 is reached at time t1, the write ends as w
analyze_try(m1, file, rb, t0, t1, w) ==
    LET latency_ms == (t1 - t0) * 1000
        m2 == [m1 EXCEPT !.latency_ms_sum = @ + latency_ms]
        due == t1 - m2.last_metrics_save > 60
        sv == IF due THEN save_metrics(m2, file, t1, w)
              ELSE [file |-> file, last_metrics_save |-> m2.last_metrics_save,
                    raised |-> FALSE]
    IN IF sv.raised
       THEN LET h == analyze_except(m2)
            IN [raised |-> h.raised, model |-> h.model, file |-> sv.file,
                value |-> h.value]
       ELSE [raised |-> FALSE,
             model |-> [m2 EXCEPT !.last_metrics_save = sv.last_metrics_save],
             file |-> sv.file,
             value |-> [sentiment |-> rb.sentiment, score |-> rb.score,
                        details |-> [positive_count |-> rb.positive_count,
                                     negative_count |-> rb.negative_count],
                        error |-> FALSE]]

\* SentimentModel.analyze entered at time t0: every way the call can end,
\* over the time t1 >= t0 at which line 101 is reached, the random draw and
\* the outcome of the write
analyze(m0, file, text0, t0) ==
    LET m1 == count_request(m0)
        cut == truncated(text0, m1.max_length)
        counts == keyword_counts(m1.config, cut)
        h == analyze_except(m1)
    IN IF counts.raised
       THEN { [raised |-> h.raised, model |-> h.model, file |-> file, value |-> h.value,
               now |-> t1] : t1 \in LaterTimes(t0) }
       ELSE { [now |-> t1] @@ analyze_try(m1, file, rule_based_result(counts, r), t0, t1, w) :
                t1 \in LaterTimes(t0), r \in RandomDraws, w \in WriteOutcomes }

----------------------------------------------------------------------------
(* get_financial_news as a state machine. *)

\* the clock when get_financial_news is called: the call is followed over
\* the last 61 seconds before the clock stops
CallTime == MaxClock - 61

\* process environments of the explored calls
Environs == { Environ(512, "default"), Environ(512, "malformed") }

Init ==
    /\ pc = "idle"
    /\ ticker = <<>>
    /\ days = 0
    /\ max_results = None
    /\ all_articles = <<>>
    /\ page = 1
    /\ data = <<>>
    /\ requests_made = 0
    /\ news_items = <<>>
    /\ excel_items = <<>>
    /\ demo_items = <<>>
    /\ idx = 0
    /\ processed_items = <<>>
    /\ text = <<>>
    /\ sentiment_result = <<>>
    /\ outcome = "idle"
    /\ raised_at = ""
    /\ result = <<>>
    /\ calls = <<>>
    /\ model = None
    /\ now = CallTime
    /\ metrics_file = AbsentFile
    /\ summary = <<>>
    /\ response = <<>>
    /\ threads = <<>>

\* an exception raised inside the try block at `step`: lines 126-129
Raise(step) ==
    /\ pc' = "done"
    /\ raised_at' = step
    /\ outcome' = except_Exception.outcome
    /\ result' = except_Exception.result

\* the call itself, lines 32-42
Call(t, d, mr) ==
    /\ pc = "idle"
    /\ ticker' = t
    /\ days' = coerce_days(d)
    /\ max_results' = mr
    /\ outcome' = "running"
    /\ news_items' = <<>>
    /\ pc' = "probe"
    /\ UNCHANGED << threads, summary, response, all_articles, page, data, requests_made, excel_items,
                    demo_items, idx, processed_items, raised_at, result, calls,
                    scorer_vars >>

\* is_api_key_valid entered at line 45: the test request of news_api.py:199
\* ends as o
ProbeRequest(o) ==
    /\ pc = "probe"
    /\ response' = << o >>
    /\ pc' = "probe_answer"
    /\ UNCHANGED << threads, summary, ticker, days, max_results, all_articles, page, data,
                    requests_made, news_items, excel_items, demo_items, idx,
                    processed_items, outcome, raised_at, result, calls, scorer_vars >>

\* is_api_key_valid returns and lines 45-53 branch on its value
Probe ==
    /\ pc = "probe_answer"
    /\ calls' = Append(calls, [fn |-> "is_api_key_valid", days |-> days,
                               timeout |-> probe_request_timeout,
                               returned |-> is_api_key_valid(response[1])])
    /\ response' = <<>>
    /\ IF is_api_key_valid(response[1])
       THEN /\ pc' = "api_page"
            /\ all_articles' = <<>>
            /\ page' = 1
            /\ data' = <<>>
       ELSE /\ pc' = "excel"
            /\ UNCHANGED << all_articles, page, data >>
    /\ UNCHANGED << threads, summary, ticker, days, max_results, requests_made, news_items,
                    excel_items, demo_items, idx, processed_items, outcome, raised_at,
                    result, scorer_vars >>

\* get_news_from_api entered with max_results = None: the comparison of line
\* 80 raises TypeError, caught at line 168
ApiBadLimit ==
    /\ pc = "api_page"
    /\ max_results = None
    /\ calls' = Append(calls, [fn |-> "get_news_from_api", days |-> days])
    /\ news_items' = <<>>
    /\ pc' = "excel"
    /\ UNCHANGED << threads, summary, response, ticker, days, max_results, all_articles, page, data, requests_made,
                    excel_items, demo_items, idx, processed_items, outcome, raised_at,
                    result, scorer_vars >>

\* get_news_from_api, one turn of the while loop of lines 83-120 with the
\* answer r of the source; a request without a timeout that is never
\* answered does not return, one with a timeout raises requests.Timeout
ApiPage(r) ==
    /\ pc = "api_page"
    /\ max_results # None
    /\ Len(all_articles) < max_results[1]
    /\ requests_made' = requests_made + 1
    /\ LET request == [fn |-> "requests.get", days |-> Min(days, 30), page |-> page,
                        pageSize |-> page_size(max_results[1]),
                        timeout |-> page_request_timeout]
       IN calls' = IF page = 1
                   THEN calls \o << [fn |-> "get_news_from_api", days |-> days], request >>
                   ELSE Append(calls, request)
    /\ IF r = NoAnswer /\ page_request_timeout = None
       THEN \* line 96 never returns
            /\ pc' = "blocked"
            /\ UNCHANGED << all_articles, page, data, news_items >>
       ELSE IF r.exc \/ r = NoAnswer
       THEN \* lines 165-170
            /\ news_items' = <<>>
            /\ all_articles' = <<>>
            /\ page' = 1
            /\ data' = <<>>
            /\ pc' = "excel"
       ELSE IF r.status # 200
       THEN \* lines 99-104
            /\ pc' = "api_format"
            /\ UNCHANGED << all_articles, page, data, news_items >>
       ELSE /\ all_articles' = all_articles \o r.articles
            /\ data' = << r.totalResults >>
            /\ IF Len(r.articles) < page_size(max_results[1])
               THEN pc' = "api_format" /\ page' = page
               ELSE /\ page' = page + 1
                    /\ IF r.totalResults <= Len(all_articles')
                       THEN pc' = "api_format"
                       ELSE pc' = "api_page"
            /\ UNCHANGED news_items
    /\ UNCHANGED << threads, summary, response, ticker, days, max_results, excel_items, demo_items, idx,
                    processed_items, outcome, raised_at, result, scorer_vars >>

\* get_news_from_api, lines 122-163, and the assignment of line 48; the
\* adapter's locals end with its return
ApiFormat ==
    /\ \/ pc = "api_format"
       \/ pc = "api_page" /\ max_results # None /\ Len(all_articles) >= max_results[1]
    /\ news_items' = format_articles(Take(all_articles, max_results[1]), 1, {}, <<>>)
    /\ all_articles' = <<>>
    /\ page' = 1
    /\ data' = <<>>
    /\ pc' = "excel"
    /\ UNCHANGED << threads, summary, response, ticker, days, max_results, requests_made, excel_items, demo_items,
                    idx, processed_items, outcome, raised_at, result, calls,
                    scorer_vars >>

\* lines 57-72 with the rows the Excel adapter returns
Supplement(rows) ==
    /\ pc = "excel"
    /\ IF max_results = None
       THEN \* None // 2 raises TypeError
            /\ Raise("excel_threshold")
            /\ UNCHANGED << excel_items, news_items, calls >>
       ELSE IF needs_excel(days, Len(news_items), max_results[1])
       THEN LET offered == [i \in 1..Len(rows) |->
                               Item(rows[i].title, rows[i].is_str, "Excel", i)]
                merged == merge_into(news_items, offered)
            IN /\ calls' = Append(calls, [fn |-> "get_news_from_excel", days |-> days])
               /\ excel_items' = offered
               /\ IF merged.raised
                  THEN Raise("merge") /\ UNCHANGED news_items
                  ELSE /\ news_items' = merged.items
                       /\ pc' = "demo"
                       /\ UNCHANGED << outcome, raised_at, result >>
       ELSE /\ pc' = "demo"
            /\ UNCHANGED << excel_items, news_items, calls, outcome, raised_at, result >>
    /\ UNCHANGED << threads, summary, response, ticker, days, max_results, all_articles, page, data, requests_made,
                    demo_items, idx, processed_items, scorer_vars >>

\* lines 75-87
LastResort(on_cutoff_kept) ==
    /\ pc = "demo"
    /\ IF needs_demo(news_items)
       THEN LET offered == get_demo_news(ticker, days, on_cutoff_kept)
                merged == merge_into(news_items, offered)
            IN /\ calls' = Append(calls, [fn |-> "get_demo_news", days |-> days])
               /\ demo_items' = offered
               /\ news_items' = merged.items
       ELSE UNCHANGED << demo_items, news_items, calls >>
    /\ pc' = "truncate"
    /\ UNCHANGED << threads, summary, response, ticker, days, max_results, all_articles, page, data, requests_made,
                    excel_items, idx, processed_items, outcome, raised_at, result,
                    scorer_vars >>

\* lines 90-95; excel_items and demo_items are not read again
Truncate ==
    /\ pc = "truncate"
    /\ news_items' = truncate(news_items, max_results[1])
    /\ excel_items' = <<>>
    /\ demo_items' = <<>>
    /\ processed_items' = <<>>
    /\ idx' = 1
    /\ pc' = "score"
    /\ UNCHANGED << threads, summary, response, ticker, days, max_results, all_articles, page, data, requests_made,
                    outcome, raised_at, result, calls, scorer_vars >>

\* the record of lines 111-119
news_item(item, t, value) ==
    [title |-> item.title, source |-> item.source, pos |-> item.pos, ticker |-> t,
     sentiment |-> value.sentiment, score |-> value.score]

\* lines 96-121, one turn of the scoring loop: an item whose title is empty
\* is skipped; otherwise analyze_sentiment(title), i.e. get_model() and
\* model.analyze(title).  ctor_ok: SentimentModel() is built without error
\* (os.makedirs and the int() conversions succeed) from os.environ = environ
ScoreItem(ctor_ok, environ) ==
    /\ pc = "score"
    /\ idx <= Len(news_items)
    /\ LET title == news_items[idx].title
       IN IF title = <<>>
          THEN /\ idx' = idx + 1
               /\ UNCHANGED << pc, processed_items, outcome, raised_at, result,
                               scorer_vars >>
          ELSE IF model = None /\ ~ctor_ok
          THEN /\ Raise("get_model")
               /\ UNCHANGED << idx, processed_items, scorer_vars >>
          ELSE LET m == get_model(model, environ, now)[1]
               IN \E a \in analyze(m, metrics_file, title, now) :
                    /\ text' = title
                    /\ model' = << a.model >>
                    /\ metrics_file' = a.file
                    /\ now' = a.now
                    /\ sentiment_result' = << a.value >>
                    /\ IF a.raised
                       THEN Raise("analyze") /\ UNCHANGED << idx, processed_items >>
                       ELSE /\ processed_items' =
                                 Append(processed_items,
                                        news_item(news_items[idx], ticker, a.value))
                            /\ idx' = idx + 1
                            /\ UNCHANGED << pc, outcome, raised_at, result >>
    /\ UNCHANGED << threads, summary, response, ticker, days, max_results, all_articles, page, data, requests_made,
                    news_items, excel_items, demo_items, calls >>

\* lines 123-124
Return ==
    /\ pc = "score"
    /\ idx > Len(news_items)
    /\ result' = processed_items
    /\ outcome' = "returned"
    /\ pc' = "done"
    /\ UNCHANGED << threads, summary, response, ticker, days, max_results, all_articles, page, data, requests_made,
                    news_items, excel_items, demo_items, idx, processed_items,
                    raised_at, calls, scorer_vars >>

Next ==
    \/ \E t \in Tickers, d \in DaysArgs, mr \in MaxResultsArgs : Call(t, d, mr)
    \/ \E o \in ProbeOutcomes : ProbeRequest(o)
    \/ Probe
    \/ ApiBadLimit
    \/ \E r \in ApiResponses \cup {NoAnswer} : ApiPage(r)
    \/ ApiFormat
    \/ \E rows \in ExcelRowLists : Supplement(rows)
    \/ \E k \in BOOLEAN : LastResort(k)
    \/ Truncate
    \/ \E c \in BOOLEAN, e \in Environs : ScoreItem(c, e)
    \/ Return

Spec == Init /\ [][Next]_vars

----------------------------------------------------------------------------
(* get_news_from_api driven on its own: limits above the page ceiling and   *)
(* answers of whole pages.                                                   *)

LargeMaxResults == 250   \* the largest max_results of the explored fetches

ApiMaxResults == {1, 2, 100, 101, LargeMaxResults}

\* n articles of one page
PageOf(n) == [i \in 1..n |-> Article(<<"h", "1">>, TRUE)]

\* answers to a page request: an exception, a refusal, or a body with a
\* short, an almost full or a full page and the total the source reports
ApiPagedResponses ==
    { [exc |-> TRUE, status |-> 0, articles |-> <<>>, totalResults |-> 0],
      [exc |-> FALSE, status |-> 429, articles |-> <<>>, totalResults |-> 0] }
    \cup { [exc |-> FALSE, status |-> 200, articles |-> PageOf(n), totalResults |-> t] :
             n \in {0, 1, 2, 99, 100}, t \in {0, 150, 1000} }

\* get_news_from_api(ticker, days, max_results) entered after a probe that
\* returned True
InitApi ==
    /\ pc = "api_page"
    /\ ticker = AAPL
    /\ days \in {7, 31}
    /\ max_results \in { <<n>> : n \in ApiMaxResults }
    /\ all_articles = <<>>
    /\ page = 1
    /\ data = <<>>
    /\ requests_made = 0
    /\ news_items = <<>>
    /\ excel_items = <<>>
    /\ demo_items = <<>>
    /\ idx = 0
    /\ processed_items = <<>>
    /\ text = <<>>
    /\ sentiment_result = <<>>
    /\ outcome = "running"
    /\ raised_at = ""
    /\ result = <<>>
    /\ calls = << [fn |-> "is_api_key_valid", days |-> days,
                    timeout |-> probe_request_timeout, returned |-> TRUE] >>
    /\ model = None
    /\ now = 0
    /\ metrics_file = AbsentFile
    /\ summary = <<>>
    /\ response = <<>>
    /\ threads = <<>>

NextApi ==
    \/ \E r \in ApiPagedResponses \cup {NoAnswer} : ApiPage(r)
    \/ ApiFormat

SpecApi == InitApi /\ [][NextApi]_vars

----------------------------------------------------------------------------
(* api.py: the per-ticker summary of get_sentiment_summary_endpoint.  A     *)
(* quotient a / b is kept as the pair <<a, b>>, the integer 0 as <<0, 1>>.  *)

MaxNews == 3             \* length of the scored lists that are summarized

\* lines 79-83
sentiment_values == [positive |-> 1, neutral |-> 0, negative |-> -1]

\* a count that takes the neutral records along with those of the label
count_label_or_other(news, label) ==
    Cardinality({ i \in 1..Len(news) : news[i].sentiment \in {label, "neutral"} })

\* sum(1 for item in news if item["sentiment"] == label)
count_label(news, label) ==
    Cardinality({ i \in 1..Len(news) : news[i].sentiment = label })

\* line 86
RECURSIVE weighted_sum(_, _)
weighted_sum(news, n) ==
    IF n = 0 THEN 0
    ELSE weighted_sum(news, n - 1) + sentiment_values[news[n].sentiment] * news[n].score

\* line 87
RECURSIVE total_weight(_, _)
total_weight(news, n) ==
    IF n = 0 THEN 0 ELSE total_weight(news, n - 1) + news[n].score

\* the numerator of line 91
RECURSIVE sentiment_sum(_, _)
sentiment_sum(news, n) ==
    IF n = 0 THEN 0 ELSE sentiment_sum(news, n - 1) + sentiment_values[news[n].sentiment]

\* a summary whose weighted average divides by the number of items
summarize_weighted_by_count(news) ==
    IF news = <<>>
    THEN [total_news |-> 0, positive |-> 0, negative |-> 0, neutral |-> 0,
          avg_sentiment_score |-> <<0, 1>>]
    ELSE [total_news |-> Len(news),
          positive |-> count_label(news, "positive"),
          negative |-> count_label(news, "negative"),
          neutral |-> count_label(news, "neutral"),
          avg_sentiment_score |-> << sentiment_sum(news, Len(news)), Len(news) >>,
          weighted_avg_score |-> << weighted_sum(news, Len(news)), 100000 * Len(news) >>]

\* lines 64-100: summary[ticker] for the list news that get_financial_news
\* returned
summarize(news) ==
    IF news = <<>>
    THEN [total_news |-> 0, positive |-> 0, negative |-> 0, neutral |-> 0,
          avg_sentiment_score |-> <<0, 1>>]
    ELSE LET w == total_weight(news, Len(news))
         IN [total_news |-> Len(news),
             positive |-> count_label(news, "positive"),
             negative |-> count_label(news, "negative"),
             neutral |-> count_label(news, "neutral"),
             avg_sentiment_score |-> << sentiment_sum(news, Len(news)), Len(news) >>,
             weighted_avg_score |-> IF w > 0
                                    THEN << weighted_sum(news, Len(news)), w >>
                                    ELSE <<0, 1>>]

\* scores of the summarized records: the ends of [0, 1], the fallback 0.5
\* and the highest score the scorer draws
SummaryScores == {0, 50000, 99995, 100000}

\* the scored lists get_financial_news hands to the summary
ScoredLists ==
    UNION { [1..k -> [sentiment : {"positive", "negative", "neutral"},
                      score : SummaryScores]] : k \in 0..MaxNews }

InitSummary ==
    /\ pc = "summary"
    /\ ticker = <<>>
    /\ days = 0
    /\ max_results = None
    /\ all_articles = <<>>
    /\ page = 1
    /\ data = <<>>
    /\ requests_made = 0
    /\ news_items = <<>>
    /\ excel_items = <<>>
    /\ demo_items = <<>>
    /\ idx = 0
    /\ processed_items = <<>>
    /\ text = <<>>
    /\ sentiment_result = <<>>
    /\ outcome = "returned"
    /\ raised_at = ""
    /\ result \in ScoredLists
    /\ calls = <<>>
    /\ model = None
    /\ now = 0
    /\ metrics_file = AbsentFile
    /\ summary = <<>>
    /\ response = <<>>
    /\ threads = <<>>

\* one turn of the loop of lines 61-100 on news = result
Summarize ==
    /\ pc = "summary"
    /\ summary' = << summarize(result) >>
    /\ pc' = "summarized"
    /\ UNCHANGED << threads, pipeline_vars, scorer_vars >>

NextSummary == Summarize

SpecSummary == InitSummary /\ [][NextSummary]_vars

----------------------------------------------------------------------------
(* The scorer driven directly through get_model() and SentimentModel.analyze. *)

MaxCalls == 2            \* analyze calls per explored run

\* process environments of the explored scorers
ScorerEnvirons ==
    { Environ(ml, cfg) : ml \in {512, 2}, cfg \in {"default", "file", "malformed"} }

no_keyword_text == <<"p", "l", "a", "i", "n">>

\* four default positive keywords (gain, gains, grow, growth) in two words
many_keywords_text == <<"g", "a", "i", "n", "s", " ", "g", "r", "o", "w", "t", "h">>

Texts ==
    { <<>>, <<"U", "P", " ", "b">>, <<"b", " ", "a">>, <<"b", "a", "b">>,
      no_keyword_text, many_keywords_text,
      common_news[1].title, common_news[3].title }

\* what the registry holds when the process starts
InitialFiles ==
    { AbsentFile, [kind |-> "list", entries |-> <<>>], [kind |-> "corrupt", entries |-> <<>>] }

InitScorer ==
    /\ pc = "scorer"
    /\ ticker = <<>>
    /\ days = 0
    /\ max_results = None
    /\ all_articles = <<>>
    /\ page = 1
    /\ data = <<>>
    /\ requests_made = 0
    /\ news_items = <<>>
    /\ excel_items = <<>>
    /\ demo_items = <<>>
    /\ idx = 0
    /\ processed_items = <<>>
    /\ text = <<>>
    /\ sentiment_result = <<>>
    /\ outcome = "idle"
    /\ raised_at = ""
    /\ result = <<>>
    /\ calls = <<>>
    /\ model = None
    /\ now = 0
    /\ metrics_file \in InitialFiles
    /\ summary = <<>>
    /\ response = <<>>
    /\ threads = <<>>

\* get_model() called while os.environ = environ (a constructor that raises
\* leaves _model as None)
GetModel(environ) ==
    /\ pc = "scorer"
    /\ model' = get_model(model, environ, now)
    /\ UNCHANGED << pc, threads, pipeline_vars, text, sentiment_result, now,
                    metrics_file, summary >>

\* analyze_sentiment(s), lines 230-244, called while os.environ = environ:
\* get_model().analyze(s)
Analyze(s, environ) ==
    /\ pc = "scorer"
    /\ model # None => model[1].request_count < MaxCalls
    /\ \E a \in analyze(get_model(model, environ, now)[1], metrics_file, s, now) :
         /\ text' = s
         /\ model' = << a.model >>
         /\ metrics_file' = a.file
         /\ now' = a.now
         /\ sentiment_result' = << a.value >>
         /\ outcome' = IF a.raised THEN "raised" ELSE "returned"
    /\ UNCHANGED << pc, threads, summary, response, ticker, days, max_results, all_articles, page, data,
                    requests_made,
                    news_items, excel_items, demo_items, idx, processed_items,
                    raised_at, result, calls >>

NextScorer ==
    \/ \E e \in ScorerEnvirons : GetModel(e)
    \/ \E s \in Texts, e \in ScorerEnvirons : Analyze(s, e)

SpecScorer == InitScorer /\ [][NextScorer]_vars

----------------------------------------------------------------------------
(* SentimentModel.analyze called from several threads at once on the       *)
(* singleton.  No statement of analyze or _save_metrics takes a lock, so    *)
(* another thread may run between the read and the write of an augmented    *)
(* assignment and between any two statements of _save_metrics.              *)

MaxThreads == 2          \* analyze calls running at once

Threads == 1..MaxThreads

\* the log the process finds: one snapshot of an earlier minute
earlier_log ==
    << [timestamp |-> 0, request_count |-> 1, error_count |-> 0,
        avg_latency_ms |-> <<0, 1>>, error_rate |-> <<0, 1>>] >>

\* the locals of a call that has not started
NewThread == [pc |-> "start", loaded |-> 0, metrics_data |-> <<>>, flushing |-> FALSE]

\* the singleton exists, nothing was counted yet, and the calls start at a
\* time when a flush is due (61) or not (0)
InitThreads ==
    /\ pc = "threads"
    /\ ticker = <<>>
    /\ days = 0
    /\ max_results = None
    /\ all_articles = <<>>
    /\ page = 1
    /\ data = <<>>
    /\ requests_made = 0
    /\ news_items = <<>>
    /\ excel_items = <<>>
    /\ demo_items = <<>>
    /\ idx = 0
    /\ processed_items = <<>>
    /\ text \in { no_keyword_text, many_keywords_text }
    /\ sentiment_result = <<>>
    /\ outcome = "idle"
    /\ raised_at = ""
    /\ result = <<>>
    /\ calls = <<>>
    /\ model \in { << SentimentModel(e, 0) >> : e \in Environs }
    /\ now \in {0, MaxClock}
    /\ metrics_file = [kind |-> "list", entries |-> earlier_log]
    /\ summary = <<>>
    /\ response = <<>>
    /\ threads = [t \in Threads |-> NewThread]

\* what a step of thread t leaves alone besides the scorer and the log
ThreadFrame ==
    UNCHANGED << pc, pipeline_vars, text, sentiment_result, now, summary >>

\* line 90, self.request_count += 1: the attribute is read ...
LoadRequestCount(t) ==
    /\ pc = "threads"
    /\ threads[t].pc = "start"
    /\ threads' = [threads EXCEPT ![t].pc = "store_request_count",
                                  ![t].loaded = model[1].request_count]
    /\ UNCHANGED << model, metrics_file >>
    /\ ThreadFrame

\* ... and the sum is stored
StoreRequestCount(t) ==
    /\ pc = "threads"
    /\ threads[t].pc = "store_request_count"
    /\ model' = << [model[1] EXCEPT !.request_count = threads[t].loaded + 1] >>
    /\ threads' = [threads EXCEPT ![t].pc = "score"]
    /\ UNCHANGED metrics_file
    /\ ThreadFrame

\* lines 92-107: the scoring, which raises for keywords that cannot be
\* iterated, and the test of line 106 (a call of no measurable duration)
Score(t) ==
    /\ pc = "threads"
    /\ threads[t].pc = "score"
    /\ LET cut == truncated(text, model[1].max_length)
           counts == keyword_counts(model[1].config, cut)
       IN threads' = [threads EXCEPT ![t].pc =
                         IF counts.raised THEN "load_error_count"
                         ELSE IF now - model[1].last_metrics_save > 60 THEN "save_metrics"
                         ELSE "done"]
    /\ UNCHANGED << model, metrics_file >>
    /\ ThreadFrame

\* line 118, self.error_count += 1: the read ...
LoadErrorCount(t) ==
    /\ pc = "threads"
    /\ threads[t].pc = "load_error_count"
    /\ threads' = [threads EXCEPT ![t].pc = "store_error_count",
                                  ![t].loaded = model[1].error_count]
    /\ UNCHANGED << model, metrics_file >>
    /\ ThreadFrame

\* ... and the store; lines 119-127 return the neutral record
StoreErrorCount(t) ==
    /\ pc = "threads"
    /\ threads[t].pc = "store_error_count"
    /\ model' = << [model[1] EXCEPT !.error_count = threads[t].loaded + 1] >>
    /\ threads' = [threads EXCEPT ![t].pc = "done"]
    /\ UNCHANGED metrics_file
    /\ ThreadFrame

\* _save_metrics, lines 175-204: the snapshot is taken from the counters and
\* appended to what the file holds now; a file that json.load rejects ends
\* the flush in the handler of lines 213-214
ReadLog(t) ==
    /\ pc = "threads"
    /\ threads[t].pc = "save_metrics"
    /\ threads' = [threads EXCEPT
                     ![t].flushing = TRUE,
                     ![t].metrics_data =
                         IF metrics_file.kind = "corrupt" THEN <<>>
                         ELSE Append(metrics_file.entries, metrics_of(model[1], now)),
                     ![t].pc = IF metrics_file.kind = "corrupt" THEN "done"
                               ELSE "open_log"]
    /\ UNCHANGED << model, metrics_file >>
    /\ ThreadFrame

\* line 207: open(metrics_file, 'w') empties the file
OpenLog(t) ==
    /\ pc = "threads"
    /\ threads[t].pc = "open_log"
    /\ metrics_file' = [kind |-> "corrupt", entries |-> <<>>]
    /\ threads' = [threads EXCEPT ![t].pc = "dump_log"]
    /\ UNCHANGED model
    /\ ThreadFrame

\* lines 208-210: json.dump and the close write this thread's list, and
\* last_metrics_save is reset; while another thread has the file open for
\* writing too, the bytes of the two lists may end up mixed
DumpLog(t) ==
    /\ pc = "threads"
    /\ threads[t].pc = "dump_log"
    /\ \/ metrics_file' = [kind |-> "list", entries |-> threads[t].metrics_data]
       \/ /\ \E u \in Threads \ {t} : threads[u].pc = "dump_log"
          /\ metrics_file' = [kind |-> "corrupt", entries |-> <<>>]
    /\ model' = << [model[1] EXCEPT !.last_metrics_save = now] >>
    /\ threads' = [threads EXCEPT ![t].pc = "done"]
    /\ ThreadFrame

NextThreads ==
    \/ \E t \in Threads : LoadRequestCount(t)
    \/ \E t \in Threads : StoreRequestCount(t)
    \/ \E t \in Threads : Score(t)
    \/ \E t \in Threads : LoadErrorCount(t)
    \/ \E t \in Threads : StoreErrorCount(t)
    \/ \E t \in Threads : ReadLog(t)
    \/ \E t \in Threads : OpenLog(t)
    \/ \E t \in Threads : DumpLog(t)

SpecThreads == InitThreads /\ [][NextThreads]_vars

----------------------------------------------------------------------------
(* Properties of get_financial_news and of the scorer. *)

Called(fn) == \E i \in 1..Len(calls) : calls[i].fn = fn

CalledWithDays(fn, d) == \E i \in 1..Len(calls) : calls[i].fn = fn /\ calls[i].days = d

\* two titles that are one headline up to case and surrounding whitespace
SameHeadline(a, b) == lower(strip(a)) = lower(strip(b))

Blank(a) == strip(a) = <<>>

PairwiseDistinct(items) ==
    \A i, j \in 1..Len(items) :
        i < j => ~SameHeadline(items[i].title, items[j].title)

IsPrefix(a, b) == Len(a) <= Len(b) /\ \A i \in 1..Len(a) : b[i] = a[i]

Occurs(item, items) == \E k \in 1..Len(items) : items[k] = item

FromSource(items, src) == SelectSeq(items, LAMBDA x : x.source = src)

NotFromSource(items, src) == SelectSeq(items, LAMBDA x : x.source # src)

PrimaryYield == Len(FromSource(news_items, "NewsAPI"))

\* the positions of `offered` that a first-seen merge after `earlier` keeps
FirstSeen(earlier, offered, i) ==
    /\ \A k \in 1..Len(earlier) : ~SameHeadline(earlier[k].title, offered[i].title)
    /\ \A j \in 1..(i - 1) : ~SameHeadline(offered[j].title, offered[i].title)

RequestCount == IF model = None THEN 0 ELSE model[1].request_count

ErrorCount == IF model = None THEN 0 ELSE model[1].error_count

\* C1: the list returned by get_financial_news called with max_results >= 1
\* has at most max_results items, whatever the sources returned.
C1_ResultWithinMaxResults ==
    (pc = "done" /\ max_results # None) => Len(result) <= max_results[1]

\* a call that found more than max_results headlines and returned max_results
C1_Witness ==
    /\ pc = "done" /\ raised_at = ""
    /\ CalledWithDays("get_demo_news", 7)
    /\ Len(result) = max_results[1]

\* C2: no two records of the merged list, of the scored list or of the
\* returned list are the same headline up to case and surrounding whitespace.
C2_NoDuplicateTitles ==
    /\ PairwiseDistinct(news_items)
    /\ PairwiseDistinct(processed_items)
    /\ PairwiseDistinct(result)

\* the merges are over; the secondary offered one headline twice and the
\* tertiary offered a headline the secondary had already given
C2_Witness ==
    /\ pc = "truncate"
    /\ \E i, j \in 1..Len(excel_items) :
          i < j /\ SameHeadline(excel_items[i].title, excel_items[j].title)
                /\ Occurs(excel_items[i], news_items)
    /\ \E i \in 1..Len(demo_items), k \in 1..Len(news_items) :
          /\ news_items[k].source = "Excel"
          /\ SameHeadline(demo_items[i].title, news_items[k].title)

\* C3: no exception leaves get_financial_news; a step of the try block that
\* raises ends the call with an empty list.
C3_NeverPropagates ==
    /\ outcome # "raised"
    /\ raised_at # "" => (pc = "done" /\ outcome = "returned" /\ result = <<>>)

\* the merge raised after the primary had delivered headlines
C3_Witness ==
    /\ pc = "done"
    /\ raised_at = "merge"
    /\ news_items # <<>>
    /\ outcome = "returned"
    /\ result = <<>>

C5_LastResort ==
    /\ pc = "truncate" =>
          /\ Called("get_demo_news") <=> Len(NotFromSource(news_items, "Demo")) < 5
          /\ \A i \in 1..Len(demo_items) :
                Occurs(demo_items[i], news_items)
                  <=> FirstSeen(NotFromSource(news_items, "Demo"), demo_items, i)
          /\ \E n \in 0..Len(news_items) :
                /\ \A k \in 1..n : news_items[k].source # "Demo"
                /\ \A k \in (n + 1)..Len(news_items) :
                      /\ Occurs(news_items[k], demo_items)
                      /\ k > n + 1 => news_items[k - 1].pos < news_items[k].pos
    /\ (pc \in {"score", "done"} /\ raised_at = "") =>
          Len(news_items) <= max_results[1]

\* the primary gave nothing, the secondary four rows of which three are new
\* headlines, and the tertiary was fetched and contributed
C5_Witness ==
    /\ pc = "truncate"
    /\ PrimaryYield = 0
    /\ Len(excel_items) = 4
    /\ Len(FromSource(news_items, "Excel")) = 3
    /\ Called("get_demo_news")
    /\ Len(FromSource(news_items, "Demo")) >= 1

\* C6: each merge only appends: the list before it stays as a prefix, and an
\* appended item is the first one offered with its headline, which no
\* earlier item of the list has.
C6_FirstSeenWins ==
    [][ (pc \in {"excel", "demo"} /\ pc' \in {"demo", "truncate"}) =>
          LET offered == IF pc = "excel" THEN excel_items' ELSE demo_items'
          IN /\ IsPrefix(news_items, news_items')
             /\ \A k \in (Len(news_items) + 1)..Len(news_items') :
                   /\ \A j \in 1..(k - 1) :
                         ~SameHeadline(news_items'[j].title, news_items'[k].title)
                   /\ \E i \in 1..Len(offered) :
                         /\ offered[i] = news_items'[k]
                         /\ \A j \in 1..(i - 1) :
                               ~SameHeadline(offered[j].title, offered[i].title) ]_vars

\* a headline of the primary was offered again by the secondary, and the
\* primary's record is the one in the list
C6_Witness ==
    /\ pc = "truncate"
    /\ \E k \in 1..Len(news_items), i \in 1..Len(excel_items) :
          /\ news_items[k].source = "NewsAPI"
          /\ SameHeadline(excel_items[i].title, news_items[k].title)
          /\ excel_items[i].title # news_items[k].title
    /\ \E k \in 1..Len(news_items) : news_items[k].source = "Excel"

\* the title, source and position of each record of a list
Identities(items) ==
    [i \in 1..Len(items) |->
        [title |-> items[i].title, source |-> items[i].source, pos |-> items[i].pos]]

\* C7: truncation keeps the first max_results items of the merged list as
\* they stand, and the scored records are those items in that order.
C7_PrefixTruncation ==
    [][ /\ pc = "truncate" =>
             /\ Len(news_items') = Min(Len(news_items), max_results[1])
             /\ IsPrefix(news_items', news_items)
        /\ (pc' \in {"score", "done"} /\ raised_at' = "") =>
             Identities(processed_items') = Identities(SubSeq(news_items', 1, idx' - 1))
        /\ (pc' = "done" /\ raised_at' = "") =>
             /\ idx' = Len(news_items') + 1
             /\ result' = processed_items' ]_vars

\* a returned list that holds a primary and a secondary record while the
\* tertiary's records were cut off
C7_Witness ==
    /\ pc = "done" /\ raised_at = ""
    /\ Len(result) = 2
    /\ result[1].source = "NewsAPI"
    /\ result[2].source = "Excel"
    /\ Called("get_demo_news")

\* C8: every scored record has a non-empty title and stands for exactly one
\* analyze call: the scorer's request_count equals the number of records, so
\* nothing that was dropped reached the scorer, and error_count never
\* exceeds it.
C8_ScoredExactlyOnce ==
    /\ \A i \in 1..Len(processed_items) : processed_items[i].title # <<>>
    /\ \A i \in 1..Len(result) : result[i].title # <<>>
    /\ RequestCount = Len(processed_items)
    /\ ErrorCount <= RequestCount

\* two records returned after two analyze calls, one for a title of blanks
C8_Witness ==
    /\ pc = "done" /\ raised_at = ""
    /\ Len(result) = 2
    /\ RequestCount = 2
    /\ \E i \in 1..2 : Blank(result[i].title)

\* C9: the days used by get_financial_news and handed to each adapter is at
\* least 1.
C9_DaysAtLeastOne ==
    /\ pc # "idle" => days >= 1
    /\ \A i \in 1..Len(calls) : calls[i].days >= 1

\* a call with days <= 0 that reached all three adapters
C9_Witness ==
    /\ CalledWithDays("get_news_from_api", 1)
    /\ CalledWithDays("get_news_from_excel", 1)
    /\ CalledWithDays("get_demo_news", 1)

\* C10: analyze never raises; it returns a sentiment and a score, also for
\* the empty string, for a text longer than max_length and when the metrics
\* write fails.
C10_AnalyzeNeverRaises ==
    /\ outcome # "raised"
    /\ outcome = "returned" =>
          /\ sentiment_result # <<>>
          /\ sentiment_result[1].sentiment \in {"positive", "negative", "neutral"}
          /\ sentiment_result[1].score \in 0..100000

\* analyze returned a scored result for a text longer than max_length while
\* the flush that was due could not write the file
C10_Witness ==
    /\ pc = "scorer"
    /\ outcome = "returned"
    /\ Len(text) > model[1].max_length
    /\ ~sentiment_result[1].error
    /\ metrics_file.kind = "absent"
    /\ now - model[1].last_metrics_save > 60

\* C11: when the scoring step of analyze fails, the call returns neutral, 0.5
\* and an error description, and error_count and request_count each grow by
\* exactly one; when scoring succeeds, request_count grows by one and
\* error_count is unchanged.
C11_FailureCounted ==
    [][ (model # None /\ RequestCount' # RequestCount) =>
          /\ RequestCount' = RequestCount + 1
          /\ IF model[1].config.iterable
             THEN /\ ~sentiment_result'[1].error
                  /\ ErrorCount' = ErrorCount
             ELSE /\ sentiment_result'[1].error
                  /\ sentiment_result'[1].sentiment = "neutral"
                  /\ sentiment_result'[1].score = 50000
                  /\ ErrorCount' = ErrorCount + 1 ]_vars

\* two calls in a row fell back to neutral and both were counted as errors
C11_Witness ==
    /\ pc = "scorer"
    /\ outcome = "returned"
    /\ sentiment_result[1].error
    /\ RequestCount = 2
    /\ ErrorCount = 2

\* the labels a result may carry
Sentiments == {"positive", "negative", "neutral"}

\* score in [0, 1], in units of 1/100000
UnitInterval(score) == 0 <= score /\ score <= 100000

\* C12: every result of analyze, on the success path and on the fallback,
\* and every record scored or returned by get_financial_news, carries a
\* sentiment among positive, negative, neutral and a score in [0, 1].
C12_LabelAndScoreRange ==
    /\ sentiment_result # <<>> =>
          /\ sentiment_result[1].sentiment \in Sentiments
          /\ UnitInterval(sentiment_result[1].score)
    /\ \A i \in 1..Len(processed_items) :
          /\ processed_items[i].sentiment \in Sentiments
          /\ UnitInterval(processed_items[i].score)
    /\ \A i \in 1..Len(result) :
          /\ result[i].sentiment \in Sentiments
          /\ UnitInterval(result[i].score)

\* the highest score the explored draws produce: a saturated base with the
\* largest jitter
C12_Witness ==
    /\ pc = "scorer"
    /\ sentiment_result # <<>>
    /\ ~sentiment_result[1].error
    /\ sentiment_result[1].sentiment = "positive"
    /\ sentiment_result[1].score = 99995

\* the keyword counts a successful result reports
PositiveCount == sentiment_result[1].details.positive_count

NegativeCount == sentiment_result[1].details.negative_count

Scored == sentiment_result # <<>> /\ ~sentiment_result[1].error

\* the model runs the built-in keywords and does not cut the text
DefaultUncut ==
    /\ model # None
    /\ model[1].config.positive_keywords = default_positive_keywords
    /\ model[1].config.negative_keywords = default_negative_keywords
    /\ Len(text) <= model[1].max_length

\* C13: the label is positive exactly when positive_count > negative_count,
\* negative exactly when negative_count > positive_count and neutral exactly
\* when the counts are equal; with the default keywords "Markets reach
\* record highs as tech stocks surge" is positive and a text without any
\* keyword is neutral.
C13_LabelFromCounts ==
    Scored =>
        /\ sentiment_result[1].sentiment = "positive" <=> PositiveCount > NegativeCount
        /\ sentiment_result[1].sentiment = "negative" <=> NegativeCount > PositiveCount
        /\ sentiment_result[1].sentiment = "neutral" <=> PositiveCount = NegativeCount
        /\ (DefaultUncut /\ text = common_news[1].title) =>
              sentiment_result[1].sentiment = "positive"
        /\ (DefaultUncut /\ text = no_keyword_text) =>
              /\ PositiveCount = 0
              /\ NegativeCount = 0
              /\ sentiment_result[1].sentiment = "neutral"

\* the headline of the scenario was scored with the default keywords
C13_Witness ==
    /\ pc = "scorer"
    /\ Scored
    /\ DefaultUncut
    /\ text = common_news[1].title
    /\ sentiment_result[1].sentiment = "positive"

\* |positive_count - negative_count|
CountDifference ==
    IF PositiveCount > NegativeCount THEN PositiveCount - NegativeCount
    ELSE NegativeCount - PositiveCount

\* C14: with count difference d >= 1 the score is min(0.7 + 0.1 d, 0.95) + j
\* with 0 <= j <= 0.05, hence in [0.70, 1.00], and the base is 0.95 for
\* d >= 3; a neutral result scores 0.5 + j with 0 <= j <= 0.1, hence in
\* [0.5, 0.6].
C14_ScoreFormula ==
    Scored =>
        IF CountDifference >= 1
        THEN /\ sentiment_result[1].sentiment # "neutral"
             /\ \E j \in 0..5000 :
                   sentiment_result[1].score
                     = Min(70000 + 10000 * CountDifference, 95000) + j
             /\ sentiment_result[1].score \in 70000..100000
             /\ CountDifference >= 3 => sentiment_result[1].score \in 95000..100000
        ELSE /\ sentiment_result[1].sentiment = "neutral"
             /\ sentiment_result[1].score \in 50000..60000

\* a difference of four keywords: the base is held at 0.95
C14_Witness ==
    /\ pc = "scorer"
    /\ Scored
    /\ CountDifference = 4
    /\ sentiment_result[1].score = 95000

\* number of non-overlapping occurrences of word in s from position i on
RECURSIVE OccurrencesFrom(_, _, _)
OccurrencesFrom(s, word, i) ==
    IF word = <<>> \/ i + Len(word) - 1 > Len(s) THEN 0
    ELSE IF SubSeq(s, i, i + Len(word) - 1) = word
    THEN 1 + OccurrencesFrom(s, word, i + Len(word))
    ELSE OccurrencesFrom(s, word, i + 1)

\* occurrences of the first n keywords in s, compared without case
RECURSIVE OccurrencesOfAll(_, _, _)
OccurrencesOfAll(keywords, s, n) ==
    IF n = 0 THEN 0
    ELSE OccurrencesOfAll(keywords, s, n - 1)
         + OccurrencesFrom(lower(s), lower(keywords[n]), 1)

\* the text the scorer counted in: the first max_length characters
ScoredText ==
    [i \in 1..Min(Len(text), model[1].max_length) |-> text[i]]

\* C15: positive_count and negative_count add one for every occurrence of a
\* configured keyword as a case-insensitive substring of the text, so a
\* keyword that appears k times contributes k.
C15_CountsPerOccurrence ==
    Scored =>
        /\ PositiveCount
             = OccurrencesOfAll(model[1].config.positive_keywords, ScoredText,
                                Len(model[1].config.positive_keywords))
        /\ NegativeCount
             = OccurrencesOfAll(model[1].config.negative_keywords, ScoredText,
                                Len(model[1].config.negative_keywords))

\* how many of the keywords occur at least once in s, compared without case
KeywordsPresent(keywords, s) ==
    Cardinality({ i \in 1..Len(keywords) :
                    OccurrencesFrom(lower(s), lower(keywords[i]), 1) >= 1 })

\* the label the two counts of s call for
LabelOf(p, n) ==
    IF p > n THEN "positive" ELSE IF n > p THEN "negative" ELSE "neutral"

\* C16: analyze cuts the text to max_length before scoring: the counts and
\* the sentiment of a result are those of the first max_length characters
\* of the text, so a keyword lying beyond max_length has no effect.
C16_TruncatedBeforeScoring ==
    Scored =>
        LET p == KeywordsPresent(model[1].config.positive_keywords, ScoredText)
            n == KeywordsPresent(model[1].config.negative_keywords, ScoredText)
        IN /\ PositiveCount = p
           /\ NegativeCount = n
           /\ sentiment_result[1].sentiment = LabelOf(p, n)

\* "UP b" scored with max_length 2 and the keywords of the file: the
\* negative keyword b lies beyond the cut and the result is positive
C16_Witness ==
    /\ pc = "scorer"
    /\ Scored
    /\ model[1].max_length = 2
    /\ model[1].config = file_config
    /\ text = <<"U", "P", " ", "b">>
    /\ PositiveCount = 1
    /\ NegativeCount = 0
    /\ sentiment_result[1].sentiment = "positive"

\* the fields of a TickerSummary
SummaryFields ==
    {"total_news", "positive", "negative", "neutral", "avg_sentiment_score",
     "weighted_avg_score"}

\* a quotient that is 0
IsZero(q) == q[1] = 0

\* C17: the summary of an empty scored list has every field of a
\* TickerSummary, total_news, positive, negative, neutral,
\* avg_sentiment_score and weighted_avg_score, and each of them is 0.
C17_EmptySummaryComplete ==
    (pc = "summarized" /\ result = <<>>) =>
        /\ DOMAIN summary[1] = SummaryFields
        /\ summary[1].total_news = 0
        /\ summary[1].positive = 0
        /\ summary[1].negative = 0
        /\ summary[1].neutral = 0
        /\ IsZero(summary[1].avg_sentiment_score)
        /\ IsZero(summary[1].weighted_avg_score)

\* sum of the scores of the first n records labelled label
RECURSIVE ScoreSumOf(_, _, _)
ScoreSumOf(news, label, n) ==
    IF n = 0 THEN 0
    ELSE ScoreSumOf(news, label, n - 1)
         + (IF news[n].sentiment = label THEN news[n].score ELSE 0)

RECURSIVE GCD(_, _)
GCD(a, b) == IF b = 0 THEN a ELSE GCD(b, a % b)

\* the quotient q with a positive denominator, in lowest terms
Lowest(q) ==
    LET g == GCD(IF q[1] < 0 THEN -q[1] ELSE q[1], q[2])
    IN << q[1] \div g, q[2] \div g >>

\* the quotients a and b are equal
SameQuotient(a, b) == Lowest(a) = Lowest(b)

\* the quotient q lies in [-1, 1]
WithinUnit(q) == q[2] > 0 /\ -q[2] <= q[1] /\ q[1] <= q[2]

\* C18: for a non-empty scored list avg_sentiment_score is the mean of the
\* polarities and weighted_avg_score is sum(polarity * score) / sum(score),
\* 0 when sum(score) is 0; both lie in [-1, 1], and a list whose items are
\* all positive with score 1.0 gives 1.0 for both.
C18_SummaryAverages ==
    (pc = "summarized" /\ result # <<>>) =>
        LET n == Len(result)
            pos == ScoreSumOf(result, "positive", n)
            neg == ScoreSumOf(result, "negative", n)
            neu == ScoreSumOf(result, "neutral", n)
            P == Cardinality({ i \in 1..n : result[i].sentiment = "positive" })
            N == Cardinality({ i \in 1..n : result[i].sentiment = "negative" })
        IN /\ SameQuotient(summary[1].avg_sentiment_score, << P - N, n >>)
           /\ IF pos + neg + neu = 0
              THEN IsZero(summary[1].weighted_avg_score)
              ELSE SameQuotient(summary[1].weighted_avg_score,
                                << pos - neg, pos + neg + neu >>)
           /\ WithinUnit(summary[1].avg_sentiment_score)
           /\ WithinUnit(summary[1].weighted_avg_score)
           /\ (\A i \in 1..n : result[i].sentiment = "positive"
                                 /\ result[i].score = 100000) =>
                 /\ SameQuotient(summary[1].avg_sentiment_score, <<1, 1>>)
                 /\ SameQuotient(summary[1].weighted_avg_score, <<1, 1>>)

\* three records, all positive with score 1.0, were summarized
C18_Witness ==
    /\ pc = "summarized"
    /\ Len(result) = 3
    /\ \A i \in 1..3 : result[i].sentiment = "positive" /\ result[i].score = 100000
    /\ summary[1].avg_sentiment_score = <<3, 3>>
    /\ summary[1].weighted_avg_score = <<300000, 300000>>

\* the probe of the current call returned False
ProbeSaidNo ==
    \E i \in 1..Len(calls) : calls[i].fn = "is_api_key_valid" /\ ~calls[i].returned

\* the outcome of the probe request is a 200 answer
Success(o) == o.exc = "" /\ o.status = 200

\* C19: is_api_key_valid never raises; it returns True for a 200 answer
\* only, and False for every other status, for a timeout and for a
\* connection failure.  Whenever it returned False, get_financial_news does
\* not call the primary fetch and goes on with the secondary step.
C19_ProbeDegrades ==
    /\ [](ProbeSaidNo =>
            /\ ~Called("get_news_from_api")
            /\ pc \in {"excel", "demo", "truncate", "score", "done"}
            /\ requests_made = 0)
    /\ [][ pc = "probe_answer" =>
             /\ outcome' = "running"
             /\ calls'[Len(calls')].fn = "is_api_key_valid"
             /\ calls'[Len(calls')].returned = Success(response[1])
             /\ pc' = IF Success(response[1]) THEN "api_page" ELSE "excel" ]_vars

\* the probe said no and the call went on to the secondary source without
\* the primary fetch
C19_Witness ==
    /\ pc = "demo"
    /\ ProbeSaidNo
    /\ Called("get_news_from_excel")
    /\ ~Called("get_news_from_api")
    /\ news_items # <<>>

\* the page requests sent so far
PageRequests == { i \in 1..Len(calls) : calls[i].fn = "requests.get" }

\* min(100, max_results)
PerPage == IF max_results[1] < 100 THEN max_results[1] ELSE 100

\* ceil(max_results / min(100, max_results))
PageBudget == (max_results[1] + PerPage - 1) \div PerPage

\* C20: the primary fetch asks for pages of min(100, max_results) articles
\* and sends another request only while fewer than max_results articles are
\* collected, the last batch was full and the reported total exceeds what
\* is collected; it stops as soon as one of these fails, so it sends at most
\* ceil(max_results / min(100, max_results)) page requests.
C20_PagingBounded ==
    /\ [](/\ requests_made <= PageBudget
          /\ Cardinality(PageRequests) = requests_made
          /\ \A i \in PageRequests : calls[i].pageSize = PerPage)
    /\ [][ requests_made' = requests_made + 1 =>
             /\ Len(all_articles) < max_results[1]
             /\ requests_made >= 1 =>
                   /\ Len(all_articles) >= requests_made * PerPage
                   /\ data[1] > Len(all_articles)
             /\ (pc' = "api_page" /\ Len(all_articles') < max_results[1])
                   <=> /\ Len(all_articles') - Len(all_articles) >= PerPage
                       /\ Len(all_articles') < max_results[1]
                       /\ data' # <<>>
                       /\ data'[1] > Len(all_articles') ]_vars

\* three full pages were fetched for a limit of LargeMaxResults and the
\* loop has ended
C20_Witness ==
    /\ pc = "api_page"
    /\ max_results = << LargeMaxResults >>
    /\ requests_made = 3
    /\ Len(all_articles) = 300

\* the headlines an item list carries, up to case and surrounding whitespace
Headlines(items) == { lower(strip(items[i].title)) : i \in 1..Len(items) }

\* an article with a title and a publishedAt that parses
WellFormed(a) == ~Blank(a.title) /\ a.date_ok

\* the headlines of the well-formed articles of a batch
WellFormedHeadlines(articles) ==
    { lower(strip(articles[i].title)) :
        i \in { j \in 1..Len(articles) : WellFormed(articles[j]) } }

\* C21: when a page request of the primary fetch fails after k >= 0 pages
\* were fetched, no further request is sent and the adapter returns the
\* items built from the articles of those k pages: a failed request that
\* ends the adapter at once returns them, one that ends the loop leaves the
\* collected articles as they were, and the formatting that follows sends
\* no request and returns their headlines.
C21_FailedPageKeepsEarlier ==
    /\ [][ requests_made' = requests_made + 1 /\ pc' = "excel" =>
             Headlines(news_items') =
                 WellFormedHeadlines(Take(all_articles, max_results[1])) ]_vars
    /\ [][ requests_made' = requests_made + 1 /\ pc' = "api_format" =>
             IsPrefix(all_articles, all_articles') ]_vars
    /\ [][ pc = "api_format" =>
             /\ requests_made' = requests_made
             /\ pc' = "excel"
             /\ Headlines(news_items') =
                    WellFormedHeadlines(Take(all_articles, max_results[1])) ]_vars

\* C22: every network call to the primary source carries a timeout, and no
\* call of get_financial_news is left waiting for an answer that never
\* comes.
C22_EveryRequestTimesOut ==
    /\ \A i \in 1..Len(calls) :
           calls[i].fn \in {"requests.get", "is_api_key_valid"} =>
               calls[i].timeout # None
    /\ pc # "blocked"

C24_SingletonScorer ==
    [][ /\ model # None =>
             /\ model' # None
             /\ model'[1].config = model[1].config
             /\ model'[1].max_length = model[1].max_length
             /\ model'[1].request_count >= model[1].request_count
        /\ (model = None /\ model' # None) =>
             /\ model'[1].request_count <= 1
             /\ \/ model'[1].config.positive_keywords = default_positive_keywords
                \/ model'[1].config = file_config
                \/ ~model'[1].config.iterable ]_vars

\* two calls were served by a scorer built from the keyword file
C24_Witness ==
    /\ model # None
    /\ model[1].config = file_config
    /\ model[1].request_count = 2

\* the time of the last flush as the scorer holds it; a scorer built by the
\* call itself starts its minute when it is built
LastFlush == IF model = None THEN now ELSE model[1].last_metrics_save

\* the log after the step is the log before it plus one snapshot at the end
OneAppended ==
    /\ metrics_file'.kind = "list"
    /\ Len(metrics_file'.entries) = Len(metrics_file.entries) + 1
    /\ IsPrefix(metrics_file.entries, metrics_file'.entries)

\* the scoring of the call that has just returned failed
ScoringFailed == sentiment_result'[1].error

\* a flush that was attempted and could not write: the log is as it was or
\* is left unreadable, and the last-flush time is not reset
WriteFailed ==
    /\ metrics_file' = metrics_file \/ metrics_file'.kind = "corrupt"
    /\ model'[1].last_metrics_save = LastFlush

\* C25: an analyze call that finds more than 60 seconds elapsed since the
\* last flush appends exactly one snapshot holding the current cumulative
\* counters and resets the last-flush time, whether its scoring succeeds or
\* fails; a call that finds 60 seconds or less elapsed leaves the log alone.
\* The elapsed time is read when the call looks at the clock (line 106),
\* and a flush whose write fails after a successful scoring is let pass
\* (the write is best-effort).
C25_FlushWhenDue ==
    [][ RequestCount' = RequestCount + 1 =>
          IF now' - LastFlush > 60
          THEN \/ /\ OneAppended
                  /\ LET snapshot == metrics_file'.entries[Len(metrics_file'.entries)]
                     IN /\ snapshot.request_count = RequestCount'
                        /\ snapshot.error_count = ErrorCount'
                  /\ model'[1].last_metrics_save = now'
               \/ ~ScoringFailed /\ WriteFailed
          ELSE metrics_file' = metrics_file ]_vars

\* C26: the metrics log is append-only: whatever a step does to it, it
\* either leaves the stored log as it was (no flush, or a flush whose write
\* failed) or keeps every earlier entry in place and adds one at the end.
C26_AppendOnlyLog ==
    [][ metrics_file' = metrics_file \/ OneAppended ]_vars

\* every concurrent call has returned
AllReturned == pc = "threads" /\ \A t \in Threads : threads[t].pc = "done"

\* the scoring of the concurrent calls fails (the keywords of the singleton
\* cannot be iterated)
ScoringRaises == ~model[1].config.iterable

\* C27: when MaxThreads analyze calls run at once on the singleton, which
\* had counted nothing before, then after all of them have returned
\* request_count is MaxThreads and error_count is the number of calls that
\* failed.
C27_NoIncrementLost ==
    AllReturned =>
        /\ model[1].request_count = MaxThreads
        /\ model[1].error_count = IF ScoringRaises THEN MaxThreads ELSE 0

\* C28: when all the concurrent calls flush, then after they have returned
\* the log can be read and holds the earlier entries followed by one new
\* snapshot for each of them.
C28_ConcurrentFlushesKeepAll ==
    (AllReturned /\ \A t \in Threads : threads[t].flushing) =>
        /\ metrics_file.kind = "list"
        /\ IsPrefix(earlier_log, metrics_file.entries)
        /\ Len(metrics_file.entries) = Len(earlier_log) + MaxThreads

\* the snapshots the log holds
Snapshots == metrics_file.entries

\* C29: the scorer's counters satisfy 0 <= error_count <= request_count in
\* every state and no step, a flush included, lowers either of them; in the
\* log a later snapshot never carries a smaller request_count or
\* error_count than an earlier one, and every error_rate is a quotient
\* between 0 and 1.
C29_CountersOrdered ==
    /\ [](/\ 0 <= ErrorCount
          /\ ErrorCount <= RequestCount
          /\ \A i, j \in 1..Len(Snapshots) :
                i < j => /\ Snapshots[i].request_count <= Snapshots[j].request_count
                         /\ Snapshots[i].error_count <= Snapshots[j].error_count
          /\ \A i \in 1..Len(Snapshots) :
                /\ Snapshots[i].error_rate[2] > 0
                /\ 0 <= Snapshots[i].error_rate[1]
                /\ Snapshots[i].error_rate[1] <= Snapshots[i].error_rate[2])
    /\ [][ /\ RequestCount' >= RequestCount
           /\ ErrorCount' >= ErrorCount ]_vars

\* two flushes a minute apart have appended snapshots of one and of two
\* requests
C29_Witness ==
    /\ Len(Snapshots) = 2
    /\ Snapshots[1].request_count = 1
    /\ Snapshots[2].request_count = 2
    /\ RequestCount = 2

\* C30: the counts of a summary partition the scored list it was computed
\* from: positive + negative + neutral = total_news = the number of records
\* get_financial_news returned, and for a non-empty list
\* avg_sentiment_score = (positive - negative) / total_news.
C30_CountsPartition ==
    pc = "summarized" =>
        /\ summary[1].positive + summary[1].negative + summary[1].neutral
              = summary[1].total_news
        /\ summary[1].total_news = Len(result)
        /\ summary[1].total_news > 0 =>
              SameQuotient(summary[1].avg_sentiment_score,
                           << summary[1].positive - summary[1].negative,
                              summary[1].total_news >>)

\* a list with one record of each label was summarized
C30_Witness ==
    /\ pc = "summarized"
    /\ summary[1].total_news = 3
    /\ summary[1].positive = 1
    /\ summary[1].negative = 1
    /\ summary[1].neutral = 1

====
